---------------------------- MODULE Spec2Model ----------------------------
(***************************************************************************)
(* A model of the HubLab API server (src/index.js): the three code         *)
(* generators (SwiftUI, Jetpack Compose, React), countCapsules, and the    *)
(* POST /generate handler that runs them and aggregates their output.      *)
(*                                                                         *)
(* Text is modelled by TLA+ strings: a template literal of the source is   *)
(* the concatenation (\o) of its literal pieces and its embedded values.   *)
(* JavaScript values that the code reads from the request body are tagged  *)
(* records: [string |-> s], [number |-> h] (h in hundredths, so that the   *)
(* division by 100 of the code is exact), [boolean |-> b], and Undefined.  *)
(***************************************************************************)
EXTENDS Integers, Sequences, FiniteSets

VARIABLES
    request,    \* the body of the POST /generate request being served, or NoRequest
    response,   \* the response the handler produced for it, or NoResponse
    invoked,    \* the generators the handler called while serving it, in call order
    now,        \* the wall clock read by new Date()
    call,       \* a direct call of one of the pure functions and its outcome, or NoCall
    heap,       \* capsule objects built in memory: object -> its children list
    stack,      \* the call stack of a recursive function running on heap
    walk,       \* that function's name, its status and its result
    earlier     \* an exchange a client keeps to compare later ones with, or NoExchange

vars == <<request, response, invoked, now, call, heap, stack, walk, earlier>>

---------------------------------------------------------------------------
(* Bounds of the model. *)

MaxKids == 2        \* children per node in the enumerated trees
MaxWide == 5        \* children of the widest enumerated node
MaxDepth == 3       \* depth of the deepest enumerated chain
MaxScreens == 2     \* screens per project
MaxTargets == 2     \* requested targets per project
MaxClock == 1       \* readings of the clock
MaxNodes == 3       \* objects of an in-memory capsule graph
MaxLinks == 2       \* entries of an object's children list in that graph
StackLimit == 4     \* frames the engine's call stack holds before RangeError

---------------------------------------------------------------------------
(* JavaScript values and the conversions the templates apply to them. *)

Undefined == [undefined |-> TRUE]
Str(s) == [string |-> s]
Num(n) == [number |-> 100 * n]
Bool(b) == [boolean |-> b]

IsString(v) == DOMAIN v = {"string"}
IsNumber(v) == DOMAIN v = {"number"}
IsBoolean(v) == DOMAIN v = {"boolean"}

\* ToBoolean: undefined, "", 0 and false are falsy.
Truthy(v) ==
    IF IsString(v) THEN v.string # ""
    ELSE IF IsNumber(v) THEN v.number # 0
    ELSE IF IsBoolean(v) THEN v.boolean
    ELSE FALSE

\* a || b
Or(a, b) == IF Truthy(a) THEN a ELSE b

\* x / 100, for a number x
Div100(x) == [number |-> x.number \div 100]

Digit(d) == SubSeq("0123456789", d + 1, d + 1)

RECURSIVE IntToString(_)
IntToString(n) ==
    IF n < 10 THEN Digit(n) ELSE IntToString(n \div 10) \o Digit(n % 10)

\* Number::toString of a non-negative number with at most two decimals:
\* the shortest decimal that denotes it.
NumberToString(h) ==
    LET i == h \div 100
        f == h % 100
    IN  IF f = 0 THEN IntToString(i)
        ELSE IF f % 10 = 0 THEN IntToString(i) \o "." \o Digit(f \div 10)
        ELSE IntToString(i) \o "." \o Digit(f \div 10) \o Digit(f % 10)

\* The string a template literal embeds for ${v}.
ToString(v) ==
    IF IsString(v) THEN v.string
    ELSE IF IsNumber(v) THEN NumberToString(v.number)
    ELSE IF IsBoolean(v) THEN (IF v.boolean THEN "true" ELSE "false")
    ELSE "undefined"

---------------------------------------------------------------------------
(* Strings. *)

CharAt(s, i) == SubSeq(s, i, i)

Slice(s, from) == SubSeq(s, from, Len(s))

IsWhitespace(c) == c \in {" ", "\t", "\n", "\r", "\f"}

LowerCase == "abcdefghijklmnopqrstuvwxyz"
UpperCase == "ABCDEFGHIJKLMNOPQRSTUVWXYZ"

IsLower(c) == \E i \in 1..Len(LowerCase) : CharAt(LowerCase, i) = c
IsUpper(c) == \E i \in 1..Len(UpperCase) : CharAt(UpperCase, i) = c

ToUpperCase(c) ==
    IF IsLower(c)
    THEN CharAt(UpperCase, CHOOSE i \in 1..Len(LowerCase) : CharAt(LowerCase, i) = c)
    ELSE c

\* str.replace(/\s+/g, '')
RECURSIVE StripWhitespace(_)
StripWhitespace(s) ==
    IF s = "" THEN ""
    ELSE IF IsWhitespace(CharAt(s, 1)) THEN StripWhitespace(Slice(s, 2))
    ELSE CharAt(s, 1) \o StripWhitespace(Slice(s, 2))

\* str.charAt(0).toUpperCase() + str.slice(1)
capitalize(str) == ToUpperCase(CharAt(str, 1)) \o Slice(str, 2)

\* Array.prototype.join
RECURSIVE Join(_, _)
Join(parts, sep) ==
    IF Len(parts) = 0 THEN ""
    ELSE IF Len(parts) = 1 THEN parts[1]
    ELSE parts[1] \o sep \o Join(Tail(parts), sep)

\* The positions at or after from where sub occurs in s.
Occurrences(s, sub, from) ==
    {i \in from..(Len(s) - Len(sub) + 1) : SubSeq(s, i, i + Len(sub) - 1) = sub}

\* The position after the first occurrence of sub in s at or after from, or 0.
IndexAfter(s, sub, from) ==
    LET found == Occurrences(s, sub, from)
    IN  IF found = {} THEN 0
        ELSE (CHOOSE i \in found : \A j \in found : i <= j) + Len(sub)

Contains(s, sub) == Occurrences(s, sub, 1) # {}

StartsWith(s, prefix) ==
    Len(prefix) <= Len(s) /\ SubSeq(s, 1, Len(prefix)) = prefix

EndsWith(s, suffix) ==
    Len(suffix) <= Len(s) /\ SubSeq(s, Len(s) - Len(suffix) + 1, Len(s)) = suffix

---------------------------------------------------------------------------
(* The capsule tree. *)

Null == [null |-> TRUE]

PropKeys ==
    {"onPress", "text", "content", "placeholder", "title", "value", "label",
     "checked", "min", "max", "type"}

\* A props object: a key the object does not hold reads as undefined.
NoProps == [k \in PropKeys |-> Undefined]

With(props, key, v) == [props EXCEPT ![key] = v]

\* A CapsuleInstance object. hasProps and hasChildren say whether the object
\* holds the key at all; an absent key keeps its field at NoProps or <<>>.
Capsule(capsuleId, props, children) ==
    [capsuleId |-> capsuleId, hasProps |-> TRUE, props |-> props,
     hasChildren |-> TRUE, children |-> children]

WithoutChildren(node) == [node EXCEPT !.hasChildren = FALSE, !.children = <<>>]

WithoutProps(node) == [node EXCEPT !.hasProps = FALSE, !.props = NoProps]

\* What a function returns, or the exception it throws.
Ok(v) == [value |-> v]
Throw(e) == [error |-> e]
IsThrow(r) == DOMAIN r = {"error"}

\* The first exception among the outcomes of a map over a list, if any.
AnyThrow(rs) == \E i \in 1..Len(rs) : IsThrow(rs[i])
FirstThrow(rs) ==
    rs[CHOOSE i \in 1..Len(rs) : IsThrow(rs[i]) /\ \A j \in 1..(i - 1) : ~IsThrow(rs[j])]

Values(rs) == [i \in 1..Len(rs) |-> rs[i].value]

---------------------------------------------------------------------------
(* countCapsules *)

RECURSIVE SumCounts(_, _, _)
RECURSIVE countCapsules(_)

\* The for loop: count += countCapsules(child), child by child.
SumCounts(children, i, count) ==
    IF i > Len(children) THEN count
    ELSE SumCounts(children, i + 1, count + countCapsules(children[i]))

\* A count without the recursion: the node and its direct children.
CountDirectChildren(instance) ==
    IF instance = Null THEN 0 ELSE 1 + Len(instance.children)

countCapsules(instance) ==
    IF instance = Null THEN 0
    ELSE IF instance.hasChildren THEN SumCounts(instance.children, 1, 1)
    ELSE 1

---------------------------------------------------------------------------
(* The SwiftUI fragment translator. *)

\* The fraction with another default: (props.value || 100) / 100
FractionDefaultOne(props) == Div100(Or(props.value, Num(100)))

\* (props.value || 50) / 100
Fraction(props) == Div100(Or(props.value, Num(50)))

SwiftUIMapped ==
    {"button", "text", "input", "card", "list", "progress", "switch", "chart",
     "searchbar", "slider", "divider"}

\* The cases of the switch that read a property of props.
SwiftUIReadsProps ==
    {"button", "text", "input", "card", "progress", "switch", "searchbar", "slider"}

\* The default case without its placeholder: only the children's fragments.
SwiftUIDefaultBare(capsuleId, hasChildren, children, childContent) == childContent

SwiftUIDefault(capsuleId, hasChildren, children, childContent) ==
    IF hasChildren /\ Len(children) > 0
    THEN "VStack(spacing: 16) {\n"
         \o "            " \o childContent \o "\n"
         \o "        }"
    ELSE "// TODO: " \o capsuleId \o "\n"
         \o "        Text(\"" \o capsuleId \o "\")"

SwiftUISwitch(instance, childContent) ==
    LET capsuleId == instance.capsuleId
        props == instance.props
    IN
    CASE capsuleId = "button" ->
           "Button(action: { /* " \o ToString(Or(props.onPress, Str("action"))) \o " */ }) {\n"
           \o "            Text(\"" \o ToString(Or(props.text, Str("Button"))) \o "\")\n"
           \o "        }\n"
           \o "        .buttonStyle(.borderedProminent)"
      [] capsuleId = "text" ->
           "Text(\"" \o ToString(Or(Or(props.content, props.text), Str(""))) \o "\")"
      [] capsuleId = "input" ->
           "TextField(\"" \o ToString(Or(props.placeholder, Str("")))
           \o "\", text: .constant(\"\"))\n"
           \o "            .textFieldStyle(.roundedBorder)"
      [] capsuleId = "card" ->
           "VStack(alignment: .leading, spacing: 16) {\n"
           \o "            "
           \o (IF Truthy(props.title)
               THEN "Text(\"" \o ToString(props.title) \o "\").font(.headline)"
               ELSE "")
           \o "\n"
           \o "            " \o childContent \o "\n"
           \o "        }\n"
           \o "        .padding()\n"
           \o "        .background(Color(.systemBackground))\n"
           \o "        .cornerRadius(12)\n"
           \o "        .shadow(radius: 4)"
      [] capsuleId = "list" ->
           "List {\n"
           \o "            ForEach(0..<5, id: \\.self) { index in\n"
           \o "                Text(\"Item \\(index + 1)\")\n"
           \o "            }\n"
           \o "        }\n"
           \o "        .listStyle(.plain)"
      [] capsuleId = "progress" ->
           "ProgressView(value: " \o ToString(Fraction(props)) \o ")\n"
           \o "            .progressViewStyle(.linear)"
      [] capsuleId = "switch" ->
           "Toggle(\"" \o ToString(Or(props.label, Str(""))) \o "\", isOn: .constant("
           \o ToString(Or(props.checked, Bool(FALSE))) \o "))"
      [] capsuleId = "chart" ->
           "// Chart - requires iOS 16+ and Charts framework\n"
           \o "        Chart {\n"
           \o "            // Add chart data\n"
           \o "        }\n"
           \o "        .frame(height: 200)"
      [] capsuleId = "searchbar" ->
           "TextField(\"" \o ToString(Or(props.placeholder, Str("Search...")))
           \o "\", text: .constant(\"\"))\n"
           \o "            .textFieldStyle(.roundedBorder)\n"
           \o "            .overlay(\n"
           \o "                HStack {\n"
           \o "                    Image(systemName: \"magnifyingglass\")\n"
           \o "                        .foregroundColor(.gray)\n"
           \o "                        .padding(.leading, 8)\n"
           \o "                    Spacer()\n"
           \o "                }\n"
           \o "            )"
      [] capsuleId = "slider" ->
           "Slider(value: .constant(" \o ToString(Fraction(props)) \o "), in: "
           \o ToString(Or(props.min, Num(0))) \o "..."
           \o ToString(Or(props.max, Num(100))) \o ")"
      [] capsuleId = "divider" ->
           "Divider()"
      [] OTHER ->
           SwiftUIDefault(capsuleId, instance.hasChildren, instance.children, childContent)

RECURSIVE generateSwiftUIComponent(_)
generateSwiftUIComponent(instance) ==
    IF instance = Null THEN Ok("EmptyView()")
    ELSE
      LET mapped == [i \in 1..Len(instance.children) |->
                        generateSwiftUIComponent(instance.children[i])]
      IN  IF AnyThrow(mapped) THEN FirstThrow(mapped)
          ELSE IF instance.capsuleId \in SwiftUIReadsProps /\ ~instance.hasProps
          THEN Throw("TypeError")
          ELSE Ok(SwiftUISwitch(instance, Join(Values(mapped), "\n                ")))

---------------------------------------------------------------------------
(* The Jetpack Compose fragment translator. *)

ComposeMapped ==
    {"button", "text", "input", "card", "list", "progress", "switch", "slider",
     "divider", "searchbar"}

ComposeReadsProps ==
    {"button", "text", "input", "card", "progress", "switch", "slider", "searchbar"}

\* The default case without its test of children: always the placeholder.
ComposeDefaultPlaceholderOnly(capsuleId, hasChildren, children, childContent) ==
    "// TODO: " \o capsuleId \o "\n"
    \o "        Text(\"" \o capsuleId \o "\")"

ComposeDefault(capsuleId, hasChildren, children, childContent) ==
    IF hasChildren /\ Len(children) > 0
    THEN "Column {\n"
         \o "            " \o childContent \o "\n"
         \o "        }"
    ELSE "// TODO: " \o capsuleId \o "\n"
         \o "        Text(\"" \o capsuleId \o "\")"

ComposeSwitch(instance, childContent) ==
    LET capsuleId == instance.capsuleId
        props == instance.props
    IN
    CASE capsuleId = "button" ->
           "Button(onClick = { /* " \o ToString(Or(props.onPress, Str("action"))) \o " */ }) {\n"
           \o "            Text(\"" \o ToString(Or(props.text, Str("Button"))) \o "\")\n"
           \o "        }"
      [] capsuleId = "text" ->
           "Text(\"" \o ToString(Or(Or(props.content, props.text), Str(""))) \o "\")"
      [] capsuleId = "input" ->
           "var text by remember { mutableStateOf(\"\") }\n"
           \o "        OutlinedTextField(\n"
           \o "            value = text,\n"
           \o "            onValueChange = { text = it },\n"
           \o "            label = { Text(\"" \o ToString(Or(props.label, Str(""))) \o "\") },\n"
           \o "            placeholder = { Text(\""
           \o ToString(Or(props.placeholder, Str(""))) \o "\") },\n"
           \o "            modifier = Modifier.fillMaxWidth()\n"
           \o "        )"
      [] capsuleId = "card" ->
           "Card(modifier = Modifier.fillMaxWidth()) {\n"
           \o "            Column(modifier = Modifier.padding(16.dp)) {\n"
           \o "                "
           \o (IF Truthy(props.title)
               THEN "Text(\"" \o ToString(props.title)
                    \o "\", style = MaterialTheme.typography.titleMedium)"
               ELSE "")
           \o "\n"
           \o "                " \o childContent \o "\n"
           \o "            }\n"
           \o "        }"
      [] capsuleId = "list" ->
           "LazyColumn {\n"
           \o "            items(5) { index ->\n"
           \o "                ListItem(headlineContent = { Text(\"Item ${index + 1}\") })\n"
           \o "            }\n"
           \o "        }"
      [] capsuleId = "progress" ->
           "LinearProgressIndicator(\n"
           \o "            progress = { " \o ToString(Fraction(props)) \o "f },\n"
           \o "            modifier = Modifier.fillMaxWidth()\n"
           \o "        )"
      [] capsuleId = "switch" ->
           "var checked by remember { mutableStateOf("
           \o ToString(Or(props.checked, Bool(FALSE))) \o ") }\n"
           \o "        Row(verticalAlignment = Alignment.CenterVertically) {\n"
           \o "            Text(\"" \o ToString(Or(props.label, Str(""))) \o "\")\n"
           \o "            Spacer(Modifier.weight(1f))\n"
           \o "            Switch(checked = checked, onCheckedChange = { checked = it })\n"
           \o "        }"
      [] capsuleId = "slider" ->
           "var value by remember { mutableFloatStateOf("
           \o ToString(Fraction(props)) \o "f) }\n"
           \o "        Slider(\n"
           \o "            value = value,\n"
           \o "            onValueChange = { value = it },\n"
           \o "            valueRange = " \o ToString(Or(props.min, Num(0))) \o "f.."
           \o ToString(Or(props.max, Num(100))) \o "f\n"
           \o "        )"
      [] capsuleId = "divider" ->
           "HorizontalDivider()"
      [] capsuleId = "searchbar" ->
           "var query by remember { mutableStateOf(\"\") }\n"
           \o "        OutlinedTextField(\n"
           \o "            value = query,\n"
           \o "            onValueChange = { query = it },\n"
           \o "            placeholder = { Text(\""
           \o ToString(Or(props.placeholder, Str("Search..."))) \o "\") },\n"
           \o "            leadingIcon = { Icon(Icons.Default.Search, \"Search\") },\n"
           \o "            modifier = Modifier.fillMaxWidth()\n"
           \o "        )"
      [] OTHER ->
           ComposeDefault(capsuleId, instance.hasChildren, instance.children, childContent)

RECURSIVE generateComposeComponent(_)
generateComposeComponent(instance) ==
    IF instance = Null THEN Ok("Text(\"Empty\")")
    ELSE
      LET mapped == [i \in 1..Len(instance.children) |->
                        generateComposeComponent(instance.children[i])]
      IN  IF AnyThrow(mapped) THEN FirstThrow(mapped)
          ELSE IF instance.capsuleId \in ComposeReadsProps /\ ~instance.hasProps
          THEN Throw("TypeError")
          ELSE Ok(ComposeSwitch(instance,
                    Join(Values(mapped), "\n        Spacer(Modifier.height(8.dp))\n        ")))

---------------------------------------------------------------------------
(* The React fragment translator. *)

ReactMapped == {"button", "text", "input", "card", "list", "progress", "switch"}

ReactReadsProps == {"button", "text", "input", "card", "progress", "switch"}

ReactDefault(capsuleId, hasChildren, children, childContent) ==
    IF hasChildren /\ Len(children) > 0
    THEN "<div className=\"space-y-4\">\n"
         \o "        " \o childContent \o "\n"
         \o "      </div>"
    ELSE "<div>{/* TODO: " \o capsuleId \o " */}</div>"

ReactSwitch(instance, childContent) ==
    LET capsuleId == instance.capsuleId
        props == instance.props
    IN
    CASE capsuleId = "button" ->
           "<button\n"
           \o "        onClick={() => { /* " \o ToString(Or(props.onPress, Str("action")))
           \o " */ }}\n"
           \o "        className=\"px-4 py-2 bg-primary text-white rounded-lg hover:opacity-90\"\n"
           \o "      >\n"
           \o "        " \o ToString(Or(props.text, Str("Button"))) \o "\n"
           \o "      </button>"
      [] capsuleId = "text" ->
           "<p>" \o ToString(Or(Or(props.content, props.text), Str(""))) \o "</p>"
      [] capsuleId = "input" ->
           "<input\n"
           \o "        type=\"" \o ToString(Or(props.type, Str("text"))) \o "\"\n"
           \o "        placeholder=\"" \o ToString(Or(props.placeholder, Str(""))) \o "\"\n"
           \o "        className=\"w-full px-3 py-2 border rounded-lg focus:ring-2 focus:ring-primary\"\n"
           \o "      />"
      [] capsuleId = "card" ->
           "<div className=\"bg-white rounded-xl shadow-md p-4\">\n"
           \o "        "
           \o (IF Truthy(props.title)
               THEN "<h3 className=\"text-lg font-semibold mb-2\">"
                    \o ToString(props.title) \o "</h3>"
               ELSE "")
           \o "\n"
           \o "        " \o childContent \o "\n"
           \o "      </div>"
      [] capsuleId = "list" ->
           "<ul className=\"divide-y\">\n"
           \o "        {[1, 2, 3, 4, 5].map(i => (\n"
           \o "          <li key={i} className=\"py-3\">Item {i}</li>\n"
           \o "        ))}\n"
           \o "      </ul>"
      [] capsuleId = "progress" ->
           "<div className=\"w-full bg-gray-200 rounded-full h-2\">\n"
           \o "        <div className=\"bg-primary h-2 rounded-full\" style={{ width: '"
           \o ToString(Or(props.value, Num(50))) \o "%' }} />\n"
           \o "      </div>"
      [] capsuleId = "switch" ->
           "<label className=\"flex items-center gap-2\">\n"
           \o "        <input type=\"checkbox\" className=\"toggle\" "
           \o (IF Truthy(props.checked) THEN "defaultChecked" ELSE "") \o " />\n"
           \o "        <span>" \o ToString(Or(props.label, Str(""))) \o "</span>\n"
           \o "      </label>"
      [] OTHER ->
           ReactDefault(capsuleId, instance.hasChildren, instance.children, childContent)

RECURSIVE generateReactComponent(_)
generateReactComponent(instance) ==
    IF instance = Null THEN Ok("<div />")
    ELSE
      LET mapped == [i \in 1..Len(instance.children) |->
                        generateReactComponent(instance.children[i])]
      IN  IF AnyThrow(mapped) THEN FirstThrow(mapped)
          ELSE IF instance.capsuleId \in ReactReadsProps /\ ~instance.hasProps
          THEN Throw("TypeError")
          ELSE Ok(ReactSwitch(instance, Join(Values(mapped), "\n        ")))

---------------------------------------------------------------------------
(* The project document and the three file generators. *)

\* A Screen object; root is a capsule or Null.
Screen(id, name, root) == [id |-> id, name |-> name, root |-> root]

File(path, language, content) ==
    [path |-> path, language |-> language, content |-> content]

\* project.screens[0]?.id || fallback
FirstScreenId(project, fallback) ==
    IF Len(project.screens) > 0
    THEN ToString(Or(Str(project.screens[1].id), Str(fallback)))
    ELSE fallback

\* The app name with its first letter capitalized as well.
AppNameCapitalized(project) == capitalize(StripWhitespace(project.name.string))

\* project.name.replace(/\s+/g, '')
AppName(project) == StripWhitespace(project.name.string)

\* project.navigation?.type || 'stack'
NavType(project) ==
    IF project.navigation = Undefined THEN "stack"
    ELSE ToString(Or(project.navigation.type, Str("stack")))

\* project.theme?.colors?.[key]
ThemeColor(project, key) ==
    IF project.theme = Undefined THEN Undefined
    ELSE IF project.theme.colors = Undefined THEN Undefined
    ELSE project.theme.colors[key]

SwiftUIAppFile(appName) ==
    File(appName \o "App.swift", "swift",
         "import SwiftUI\n"
         \o "\n"
         \o "@main\n"
         \o "struct " \o appName \o "App: App {\n"
         \o "    var body: some Scene {\n"
         \o "        WindowGroup {\n"
         \o "            ContentView()\n"
         \o "        }\n"
         \o "    }\n"
         \o "}")

SwiftUITab(s) ==
    "            " \o capitalize(s.id) \o "View" \o "()\n"
    \o "                .tabItem {\n"
    \o "                    Label(\"" \o s.name \o "\", systemImage: \"star\")\n"
    \o "                }"

\* The content body choosing tabs whatever the number of screens.
SwiftUIContentBodyTabsAnyCount(project) ==
    IF NavType(project) = "tabs"
    THEN "TabView {\n"
         \o Join([i \in 1..Len(project.screens) |-> SwiftUITab(project.screens[i])], "\n")
         \o "\n        }"
    ELSE "NavigationStack {\n            "
         \o capitalize(FirstScreenId(project, "Home")) \o "View"
         \o "()\n        }"

SwiftUIContentBody(project) ==
    IF NavType(project) = "tabs" /\ Len(project.screens) > 1
    THEN "TabView {\n"
         \o Join([i \in 1..Len(project.screens) |-> SwiftUITab(project.screens[i])], "\n")
         \o "\n        }"
    ELSE "NavigationStack {\n            "
         \o capitalize(FirstScreenId(project, "Home")) \o "View"
         \o "()\n        }"

SwiftUIContentViewFile(project) ==
    File("ContentView.swift", "swift",
         "import SwiftUI\n"
         \o "\n"
         \o "struct ContentView: View {\n"
         \o "    var body: some View {\n"
         \o "        " \o SwiftUIContentBody(project) \o "\n"
         \o "    }\n"
         \o "}\n"
         \o "\n"
         \o "#Preview {\n"
         \o "    ContentView()\n"
         \o "}")

SwiftUIScreenFile(screen, content) ==
    LET viewName == capitalize(screen.id) \o "View"
    IN  File(viewName \o ".swift", "swift",
             "import SwiftUI\n"
             \o "\n"
             \o "struct " \o viewName \o ": View {\n"
             \o "    var body: some View {\n"
             \o "        " \o content \o "\n"
             \o "            .navigationTitle(\"" \o screen.name \o "\")\n"
             \o "    }\n"
             \o "}\n"
             \o "\n"
             \o "#Preview {\n"
             \o "    NavigationStack {\n"
             \o "        " \o viewName \o "()\n"
             \o "    }\n"
             \o "}")

generateSwiftUI(project) ==
    LET contents == [i \in 1..Len(project.screens) |->
                        generateSwiftUIComponent(project.screens[i].root)]
    IN  IF AnyThrow(contents) THEN FirstThrow(contents)
        ELSE Ok(<<SwiftUIAppFile(AppName(project)), SwiftUIContentViewFile(project)>>
                \o [i \in 1..Len(project.screens) |->
                      SwiftUIScreenFile(project.screens[i], contents[i].value)])

\* project.platformConfig?.android?.packageName || 'com.hublab.app'
PackageName(project) == ToString(Or(project.packageName, Str("com.hublab.app")))

ComposeMainActivityFile(project) ==
    LET packageName == PackageName(project)
        appName == AppName(project)
    IN  File("MainActivity.kt", "kotlin",
             "package " \o packageName \o "\n"
             \o "\n"
             \o "import android.os.Bundle\n"
             \o "import androidx.activity.ComponentActivity\n"
             \o "import androidx.activity.compose.setContent\n"
             \o "import androidx.compose.material3.*\n"
             \o "import androidx.compose.runtime.*\n"
             \o "import " \o packageName \o ".ui.theme." \o appName \o "Theme\n"
             \o "\n"
             \o "class MainActivity : ComponentActivity() {\n"
             \o "    override fun onCreate(savedInstanceState: Bundle?) {\n"
             \o "        super.onCreate(savedInstanceState)\n"
             \o "        setContent {\n"
             \o "            " \o appName \o "Theme {\n"
             \o "                Surface(color = MaterialTheme.colorScheme.background) {\n"
             \o "                    " \o capitalize(FirstScreenId(project, "Main")) \o "Screen()\n"
             \o "                }\n"
             \o "            }\n"
             \o "        }\n"
             \o "    }\n"
             \o "}")

ComposeScreenFile(project, screen, content) ==
    LET screenName == capitalize(screen.id) \o "Screen"
    IN  File(screenName \o ".kt", "kotlin",
             "package " \o PackageName(project) \o ".screens\n"
             \o "\n"
             \o "import androidx.compose.foundation.layout.*\n"
             \o "import androidx.compose.foundation.lazy.LazyColumn\n"
             \o "import androidx.compose.material3.*\n"
             \o "import androidx.compose.runtime.*\n"
             \o "import androidx.compose.ui.Alignment\n"
             \o "import androidx.compose.ui.Modifier\n"
             \o "import androidx.compose.ui.unit.dp\n"
             \o "\n"
             \o "@Composable\n"
             \o "fun " \o screenName \o "() {\n"
             \o "    Column(\n"
             \o "        modifier = Modifier\n"
             \o "            .fillMaxSize()\n"
             \o "            .padding(16.dp)\n"
             \o "    ) {\n"
             \o "        " \o content \o "\n"
             \o "    }\n"
             \o "}")

generateJetpackCompose(project) ==
    LET contents == [i \in 1..Len(project.screens) |->
                        generateComposeComponent(project.screens[i].root)]
    IN  IF AnyThrow(contents) THEN FirstThrow(contents)
        ELSE Ok(<<ComposeMainActivityFile(project)>>
                \o [i \in 1..Len(project.screens) |->
                      ComposeScreenFile(project, project.screens[i], contents[i].value)])

ReactAppFile(project) ==
    LET imports ==
          Join([i \in 1..Len(project.screens) |->
                  "import " \o capitalize(project.screens[i].id) \o "Page from './pages/"
                  \o project.screens[i].id \o "'"], "\n")
    IN  File("App.tsx", "typescript",
             "import React from 'react'\n"
             \o imports \o "\n"
             \o "\n"
             \o "export default function App() {\n"
             \o "  return (\n"
             \o "    <div className=\"min-h-screen bg-gray-50\">\n"
             \o "      <" \o capitalize(FirstScreenId(project, "Home")) \o "Page />\n"
             \o "    </div>\n"
             \o "  )\n"
             \o "}")

ReactPageFile(screen, content) ==
    LET pageName == capitalize(screen.id) \o "Page"
    IN  File("pages/" \o screen.id \o ".tsx", "typescript",
             "import React from 'react'\n"
             \o "\n"
             \o "export default function " \o pageName \o "() {\n"
             \o "  return (\n"
             \o "    <div className=\"container mx-auto p-4\">\n"
             \o "      <h1 className=\"text-2xl font-bold mb-4\">" \o screen.name \o "</h1>\n"
             \o "      " \o content \o "\n"
             \o "    </div>\n"
             \o "  )\n"
             \o "}")

ReactTailwindFile(project) ==
    File("tailwind.config.js", "javascript",
         "module.exports = {\n"
         \o "  content: ['./src/**/*.{js,ts,jsx,tsx}'],\n"
         \o "  theme: {\n"
         \o "    extend: {\n"
         \o "      colors: {\n"
         \o "        primary: '" \o ToString(Or(ThemeColor(project, "primary"), Str("#6366F1")))
         \o "',\n"
         \o "        secondary: '"
         \o ToString(Or(ThemeColor(project, "secondary"), Str("#8B5CF6"))) \o "',\n"
         \o "      }\n"
         \o "    }\n"
         \o "  },\n"
         \o "  plugins: []\n"
         \o "}")

\* generateReact without the push of the Tailwind config.
generateReactWithoutStyleConfig(project) ==
    LET contents == [i \in 1..Len(project.screens) |->
                        generateReactComponent(project.screens[i].root)]
    IN  IF AnyThrow(contents) THEN FirstThrow(contents)
        ELSE Ok(<<ReactAppFile(project)>>
                \o [i \in 1..Len(project.screens) |->
                      ReactPageFile(project.screens[i], contents[i].value)])

generateReact(project) ==
    LET contents == [i \in 1..Len(project.screens) |->
                        generateReactComponent(project.screens[i].root)]
    IN  IF AnyThrow(contents) THEN FirstThrow(contents)
        ELSE Ok(<<ReactAppFile(project)>>
                \o [i \in 1..Len(project.screens) |->
                      ReactPageFile(project.screens[i], contents[i].value)]
                \o <<ReactTailwindFile(project)>>)

---------------------------------------------------------------------------
(* The POST /generate handler. *)

\* A project document. name and version are JavaScript values (Undefined when
\* the key is absent); hasTargets and hasScreens say whether the arrays are
\* there; theme and navigation are objects or Undefined; packageName stands
\* for platformConfig?.android?.packageName.
Project(name, version, hasTargets, targets, hasScreens, screens, theme, navigation, packageName) ==
    [name |-> name, version |-> version, hasTargets |-> hasTargets, targets |-> targets,
     hasScreens |-> hasScreens, screens |-> screens, theme |-> theme,
     navigation |-> navigation, packageName |-> packageName]

\* !project.name || !project.targets || !project.screens || !project.theme
MissingRequired(project) ==
    \/ ~Truthy(project.name)
    \/ ~project.hasTargets
    \/ ~project.hasScreens
    \/ project.theme = Undefined

RECURSIVE SumSeq(_)
SumSeq(ns) == IF Len(ns) = 0 THEN 0 ELSE Head(ns) + SumSeq(Tail(ns))

\* A total that counts one capsule per screen with a root.
TotalCapsulesRootsOnly(project) ==
    Cardinality({i \in 1..Len(project.screens) : project.screens[i].root # Null})

\* totalCapsules after the loop over project.screens
TotalCapsules(project) ==
    SumSeq([i \in 1..Len(project.screens) |-> countCapsules(project.screens[i].root)])

\* The generator the switch on target selects, or "none".
GeneratorFor(target) ==
    CASE target = "ios" -> "generateSwiftUI"
      [] target = "android" -> "generateJetpackCompose"
      [] target \in {"web", "desktop"} -> "generateReact"
      [] OTHER -> "none"

\* files after the switch on target: let files = [] and the selected generator.
TargetFiles(target, project) ==
    CASE GeneratorFor(target) = "generateSwiftUI" -> generateSwiftUI(project)
      [] GeneratorFor(target) = "generateJetpackCompose" -> generateJetpackCompose(project)
      [] GeneratorFor(target) = "generateReact" -> generateReact(project)
      [] OTHER -> Ok(<<>>)

\* A result whose files carry the time of generation in their contents.
GenerationResultStampedFiles(target, files, project, clock) ==
    [success |-> TRUE, platform |-> target,
     files |-> [i \in 1..Len(files) |->
                  [files[i] EXCEPT !.content = @ \o "\n// " \o IntToString(clock)]],
     metadata |-> [capsuleCount |-> TotalCapsules(project),
                   screenCount |-> Len(project.screens),
                   generatedAt |-> clock]]

\* The object results.push adds for one target.
GenerationResult(target, files, project, clock) ==
    [success |-> TRUE, platform |-> target, files |-> files,
     metadata |-> [capsuleCount |-> TotalCapsules(project),
                   screenCount |-> Len(project.screens),
                   generatedAt |-> clock]]

\* Results with the push moved into the cases of the switch: a target outside
\* them adds no result.
ResultsSkippingUnrecognized(project, clock) ==
    LET targets == SelectSeq(project.targets, LAMBDA t : GeneratorFor(t) # "none")
        outcomes == [i \in 1..Len(targets) |-> TargetFiles(targets[i], project)]
    IN  IF AnyThrow(outcomes) THEN FirstThrow(outcomes)
        ELSE Ok([i \in 1..Len(targets) |->
                   GenerationResult(targets[i], outcomes[i].value, project, clock)])

\* results after the loop over project.targets, or the exception that ends it.
Results(project, clock) ==
    LET outcomes == [i \in 1..Len(project.targets) |->
                        TargetFiles(project.targets[i], project)]
    IN  IF AnyThrow(outcomes) THEN FirstThrow(outcomes)
        ELSE Ok([i \in 1..Len(project.targets) |->
                   GenerationResult(project.targets[i], outcomes[i].value, project, clock)])

Summary(project, results) ==
    [totalPlatforms |-> Len(results),
     totalFiles |-> SumSeq([i \in 1..Len(results) |-> Len(results[i].files)]),
     totalCapsules |-> TotalCapsules(project),
     totalScreens |-> Len(project.screens)]

\* The generators called while the request is served, in call order: the loop
\* stops at the first one that throws.
Invocations(project) ==
    IF MissingRequired(project) THEN <<>>
    ELSE LET called == [i \in 1..Len(project.targets) |-> GeneratorFor(project.targets[i])]
             thrown == {i \in 1..Len(project.targets) :
                          IsThrow(TargetFiles(project.targets[i], project))}
             last == IF thrown = {} THEN Len(project.targets)
                     ELSE CHOOSE i \in thrown : \A j \in thrown : i <= j
         IN  SelectSeq(SubSeq(called, 1, last), LAMBDA g : g # "none")

\* The response of the handler: status and JSON body.
GenerateResponse(project, clock) ==
    IF MissingRequired(project)
    THEN [status |-> 400,
          body |-> [error |-> "Missing required fields: name, targets, screens, theme"]]
    ELSE LET results == Results(project, clock)
         IN  IF IsThrow(results)
             THEN [status |-> 400,
                   body |-> [error |-> "Invalid project specification",
                             details |-> results.error]]
             ELSE [status |-> 200,
                   body |-> [success |-> TRUE,
                             project |-> [name |-> project.name, version |-> project.version],
                             results |-> results.value,
                             summary |-> Summary(project, results.value)]]

---------------------------------------------------------------------------
(* The inputs the model draws: capsule trees and project documents. *)

SeqsUpTo(S, lo, hi) == UNION {[1..n -> S] : n \in lo..hi}

\* Every mapped kind, two kinds no backend maps (one of the schema's
\* enumeration, one outside it) and the empty string.
CapsuleIds == SwiftUIMapped \cup {"modal", "avatar", ""}

FullProps ==
    [k \in PropKeys |->
        CASE k = "onPress" -> Str("save")
          [] k = "text" -> Str("Go")
          [] k = "content" -> Str("")
          [] k = "placeholder" -> Str("Type here")
          [] k = "title" -> Str("Tasks")
          [] k = "value" -> Num(75)
          [] k = "label" -> Str("Dark mode")
          [] k = "checked" -> Bool(TRUE)
          [] k = "min" -> Num(1)
          [] k = "max" -> Num(10)
          [] k = "type" -> Str("email")]

PropBags ==
    {NoProps, FullProps, With(NoProps, "title", Str("Tasks")),
     With(NoProps, "content", Str("Hello"))}
    \cup {With(NoProps, "value", Num(v)) : v \in {0, 7, 30, 100}}

Leaves ==
    LET withProps == {Capsule(k, p, <<>>) : k \in CapsuleIds, p \in PropBags}
        all == withProps \cup {WithoutProps(Capsule(k, NoProps, <<>>)) : k \in CapsuleIds}
    IN  all \cup {WithoutChildren(n) : n \in all}

SmallKids ==
    {Null,
     Capsule("text", With(NoProps, "content", Str("Hi")), <<>>),
     Capsule("slider", NoProps, <<>>),
     WithoutChildren(Capsule("avatar", NoProps, <<>>)),
     WithoutProps(Capsule("button", NoProps, <<>>))}

Parents ==
    {Capsule(k, p, kids) :
        k \in CapsuleIds, p \in {NoProps, With(NoProps, "title", Str("Tasks"))},
        kids \in SeqsUpTo(SmallKids, 1, MaxKids)}

Leaf == WithoutChildren(Capsule("divider", NoProps, <<>>))

Wides == {Capsule("form", NoProps, [i \in 1..k |-> Leaf]) : k \in 0..MaxWide}

RECURSIVE Chain(_)
Chain(d) == IF d = 0 THEN Leaf ELSE Capsule("form", NoProps, <<Chain(d - 1)>>)

Chains == {Chain(d) : d \in 0..MaxDepth}

Level1 == {Capsule("form", NoProps, kids) : kids \in SeqsUpTo({Leaf}, 0, MaxKids)}

Level2 == {Capsule("tabs", NoProps, kids) : kids \in SeqsUpTo(Level1 \cup {Null}, 0, MaxKids)}

Trees == Leaves \cup Parents \cup Wides \cup Chains \cup Level2

Instances == Trees \cup {Null}

ScreenSet ==
    {Screen("home", "Home", Capsule("card", With(NoProps, "title", Str("Tasks")), <<>>)),
     Screen("settings", "Settings", Null),
     Screen("stats", "Stats",
            Capsule("dashboard", NoProps,
                    <<Capsule("progress", NoProps, <<>>),
                      WithoutChildren(Capsule("slider", NoProps, <<>>))>>)),
     Screen("broken", "Broken", WithoutProps(Capsule("button", NoProps, <<>>)))}

ScreenLists == SeqsUpTo(ScreenSet, 0, MaxScreens)

TargetValues == {"ios", "android", "web", "desktop", "tvos"}

TargetLists == SeqsUpTo(TargetValues, 0, MaxTargets)

Names == {Str("Todo App"), Str("todo app"), Str(" my\tapp 2"), Str("X"), Str(""), Undefined}

Versions == {Str("1.0.0"), Undefined}

NoColors == [primary |-> Undefined, secondary |-> Undefined]

Themes ==
    {Undefined, [colors |-> Undefined],
     [colors |-> [NoColors EXCEPT !.primary = Str("#6366F1")]],
     [colors |-> [primary |-> Str("#FF0000"), secondary |-> Str("#00FF00")]]}

Navigations ==
    {Undefined, [type |-> Undefined], [type |-> Str("stack")], [type |-> Str("tabs")]}

PackageNames == {Undefined, Str("com.acme.todo")}

BaseTheme == [colors |-> [NoColors EXCEPT !.primary = Str("#6366F1")]]

HomeScreen == CHOOSE s \in ScreenSet : s.id = "home"
StatsScreen == CHOOSE s \in ScreenSet : s.id = "stats"

BaseScreenLists == {<<>>, <<HomeScreen>>, <<HomeScreen, StatsScreen>>}

\* The project documents the clients send: every list of targets; every
\* combination of present and absent top-level fields; every list of screens
\* under every navigation setting; and every name and package setting.
Projects ==
    {Project(Str("Todo App"), Str("1.0.0"), TRUE, ts, TRUE, ss, BaseTheme, Undefined, Undefined) :
        ts \in TargetLists, ss \in BaseScreenLists}
    \cup
    {Project(n, v, ht, IF ht THEN <<"ios", "web">> ELSE <<>>,
             hs, IF hs THEN <<HomeScreen>> ELSE <<>>,
             th, Undefined, Undefined) :
        n \in Names, v \in Versions, ht \in BOOLEAN, hs \in BOOLEAN, th \in Themes}
    \cup
    {Project(Str("Todo App"), Str("1.0.0"), TRUE, <<t>>, TRUE, ss, BaseTheme, nav, Undefined) :
        t \in {"ios", "android", "web"}, ss \in ScreenLists, nav \in Navigations}
    \cup
    {Project(n, Str("1.0.0"), TRUE, <<t>>, TRUE, ss, BaseTheme, Undefined, pn) :
        n \in Names \ {Str(""), Undefined}, t \in {"ios", "android", "web"},
        ss \in BaseScreenLists, pn \in PackageNames}

---------------------------------------------------------------------------
(* The server: one request is served at a time, to completion. *)

NoRequest == [none |-> "request"]
NoResponse == [none |-> "response"]
NoCall == [none |-> "call"]
NotWalking == [fn |-> "none", status |-> "idle", result |-> 0]
NoExchange == [none |-> "exchange"]

Init ==
    /\ request = NoRequest
    /\ response = NoResponse
    /\ invoked = <<>>
    /\ now = 0
    /\ call = NoCall
    /\ heap = <<>>
    /\ stack = <<>>
    /\ walk = NotWalking
    /\ earlier = NoExchange

Idle == request = NoRequest /\ call = NoCall /\ walk = NotWalking

\* A client posts a project document to /generate.
Send ==
    /\ Idle
    /\ \E project \in Projects : request' = project
    /\ UNCHANGED <<response, invoked, now, call, heap, stack, walk, earlier>>

\* app.post('/generate'): the handler runs to completion on the request.
PostGenerate ==
    /\ request # NoRequest
    /\ response = NoResponse
    /\ response' = GenerateResponse(request, now)
    /\ invoked' = Invocations(request)
    /\ UNCHANGED <<request, now, call, heap, stack, walk, earlier>>

\* The response is sent; request and results are discarded.
Respond ==
    /\ response # NoResponse
    /\ request' = NoRequest
    /\ response' = NoResponse
    /\ invoked' = <<>>
    /\ UNCHANGED <<now, call, heap, stack, walk, earlier>>

\* Time passes. Only the handler reads the clock.
Tick ==
    /\ call = NoCall
    /\ walk = NotWalking
    /\ now < MaxClock
    /\ now' = now + 1
    /\ UNCHANGED <<request, response, invoked, call, heap, stack, walk, earlier>>

Called(fn, arg, result) == [fn |-> fn, arg |-> arg, result |-> result]

CallCountCapsules ==
    /\ Idle
    /\ \E instance \in Instances :
          call' = Called("countCapsules", instance, Ok(countCapsules(instance)))
    /\ UNCHANGED <<request, response, invoked, now, heap, stack, walk, earlier>>

CallGenerateSwiftUIComponent ==
    /\ Idle
    /\ \E instance \in Instances :
          call' = Called("generateSwiftUIComponent", instance, generateSwiftUIComponent(instance))
    /\ UNCHANGED <<request, response, invoked, now, heap, stack, walk, earlier>>

CallGenerateComposeComponent ==
    /\ Idle
    /\ \E instance \in Instances :
          call' = Called("generateComposeComponent", instance, generateComposeComponent(instance))
    /\ UNCHANGED <<request, response, invoked, now, heap, stack, walk, earlier>>

CallGenerateReactComponent ==
    /\ Idle
    /\ \E instance \in Instances :
          call' = Called("generateReactComponent", instance, generateReactComponent(instance))
    /\ UNCHANGED <<request, response, invoked, now, heap, stack, walk, earlier>>

\* The caller takes the result.
Return ==
    /\ call # NoCall
    /\ call' = NoCall
    /\ UNCHANGED <<request, response, invoked, now, heap, stack, walk, earlier>>

Next ==
    \/ Send
    \/ PostGenerate
    \/ Respond
    \/ Tick
    \/ CallCountCapsules
    \/ CallGenerateSwiftUIComponent
    \/ CallGenerateComposeComponent
    \/ CallGenerateReactComponent
    \/ Return

Spec == Init /\ [][Next]_vars

---------------------------------------------------------------------------
(* The recursion of countCapsules and of the three fragment translators, call *)
(* by call, on capsule objects whose children lists may refer to any object, *)
(* an ancestor included.  Each of the four functions visits its argument and *)
(* then calls itself on every child in order; none of them carries a depth   *)
(* counter or a set of visited objects.  The only bound on the depth of the  *)
(* recursion is the engine's call stack, which throws RangeError when full.  *)

Objects == 1..MaxNodes

Heaps == [Objects -> SeqsUpTo(Objects, 0, MaxLinks)]

RecursiveFunctions ==
    {"countCapsules", "generateSwiftUIComponent", "generateComposeComponent",
     "generateReactComponent"}

Frame(object) == [object |-> object, next |-> 1, count |-> 1]

Top == stack[Len(stack)]

\* The function is called on object 1 of a graph built in memory.
StartWalk ==
    /\ Idle
    /\ heap' \in Heaps
    /\ stack' = <<Frame(1)>>
    /\ \E fn \in RecursiveFunctions :
          walk' = [fn |-> fn, status |-> "running", result |-> 0]
    /\ UNCHANGED <<request, response, invoked, now, call, earlier>>

\* The running call reaches its next child and calls itself on it.
Recurse ==
    /\ walk.status = "running"
    /\ Top.next <= Len(heap[Top.object])
    /\ Len(stack) < StackLimit
    /\ stack' = Append([stack EXCEPT ![Len(stack)].next = @ + 1],
                       Frame(heap[Top.object][Top.next]))
    /\ UNCHANGED <<request, response, invoked, now, call, heap, walk, earlier>>

\* The same call with the call stack full: the engine throws RangeError, which
\* none of the four functions catches.
Overflow ==
    /\ walk.status = "running"
    /\ Top.next <= Len(heap[Top.object])
    /\ Len(stack) = StackLimit
    /\ stack' = <<>>
    /\ walk' = [walk EXCEPT !.status = "RangeError"]
    /\ UNCHANGED <<request, response, invoked, now, call, heap, earlier>>

\* The running call has visited all its children and returns to its caller.
Unwind ==
    /\ walk.status = "running"
    /\ Top.next > Len(heap[Top.object])
    /\ IF Len(stack) = 1
       THEN /\ stack' = <<>>
            /\ walk' = [walk EXCEPT !.status = "returned", !.result = Top.count]
       ELSE /\ stack' = [SubSeq(stack, 1, Len(stack) - 1)
                            EXCEPT ![Len(stack) - 1].count = @ + Top.count]
            /\ walk' = walk
    /\ UNCHANGED <<request, response, invoked, now, call, heap, earlier>>

\* The caller takes the outcome; the objects are dropped.
EndWalk ==
    /\ walk.status \in {"returned", "RangeError"}
    /\ heap' = <<>>
    /\ walk' = NotWalking
    /\ UNCHANGED <<request, response, invoked, now, call, stack, earlier>>

NextWalk ==
    \/ StartWalk
    \/ Recurse
    \/ Overflow
    \/ Unwind
    \/ EndWalk

SpecWalk == Init /\ [][NextWalk]_vars

---------------------------------------------------------------------------
(* Repeated requests: clients post projects of a small set again and again  *)
(* and keep one earlier exchange to compare the later ones with.  The       *)
(* handler is synchronous, so requests are served one after the other; the  *)
(* exchanges a client does not keep are the other calls in between.         *)

ReplayProjects ==
    {Project(Str("Todo App"), Str("1.0.0"), TRUE, ts, TRUE, ss, BaseTheme, Undefined, Undefined) :
        ts \in {<<>>, <<"ios", "web">>, <<"android", "desktop">>, <<"tvos", "ios">>},
        ss \in BaseScreenLists}
    \cup
    {Project(Str("Todo App"), Str("1.0.0"), TRUE, <<"ios">>, TRUE,
             <<CHOOSE s \in ScreenSet : s.id = "broken">>, BaseTheme, Undefined, Undefined)}

\* A client posts one of the replayed projects to /generate.
Resend ==
    /\ Idle
    /\ \E project \in ReplayProjects : request' = project
    /\ UNCHANGED <<response, invoked, now, call, heap, stack, walk, earlier>>

\* The response is sent and the client keeps the exchange.
RespondKept ==
    /\ response # NoResponse
    /\ earlier' = [project |-> request, response |-> response, interleaved |-> FALSE]
    /\ request' = NoRequest
    /\ response' = NoResponse
    /\ invoked' = <<>>
    /\ UNCHANGED <<now, call, heap, stack, walk>>

\* The response is sent and dropped: one more call since the kept exchange.
RespondDropped ==
    /\ response # NoResponse
    /\ earlier' = IF earlier = NoExchange THEN earlier
                  ELSE [earlier EXCEPT !.interleaved = TRUE]
    /\ request' = NoRequest
    /\ response' = NoResponse
    /\ invoked' = <<>>
    /\ UNCHANGED <<now, call, heap, stack, walk>>

NextReplay ==
    \/ Resend
    \/ PostGenerate
    \/ RespondKept
    \/ RespondDropped
    \/ Tick

SpecReplay == Init /\ [][NextReplay]_vars

---------------------------------------------------------------------------
(* Properties. *)

Responded == response # NoResponse
Succeeded == Responded /\ response.status = 200
Rejected == Responded /\ response.status = 400

\* The platform values the schema enumerates and the switch on target handles.
RecognizedTargets == {"ios", "android", "web", "desktop"}

RecognizedOf(targets) == SelectSeq(targets, LAMBDA t : t \in RecognizedTargets)

\* C1 as stated: the results of POST /generate hold exactly one entry per
\* recognized target, in request order; a target outside ios, android, web,
\* desktop adds no entry, and summary.totalPlatforms counts the recognized ones.
C1_UnrecognizedTargetsSkipped ==
    Succeeded =>
      LET results == response.body.results
          recognized == RecognizedOf(request.targets)
      IN  /\ Len(results) = Len(recognized)
          /\ \A i \in 1..Len(results) : results[i].platform = recognized[i]
          /\ response.body.summary.totalPlatforms = Len(recognized)

\* C1 as amended: the results hold exactly one entry per requested target, in
\* request order; the entry of a target outside ios, android, web, desktop has
\* an empty files list, the entry of a recognized target has files, and
\* summary.totalPlatforms counts every requested target.
C1_OneResultPerRequestedTarget ==
    Succeeded =>
      LET results == response.body.results
      IN  /\ Len(results) = Len(request.targets)
          /\ \A i \in 1..Len(results) :
                /\ results[i].platform = request.targets[i]
                /\ results[i].success
                /\ (request.targets[i] \in RecognizedTargets) = (Len(results[i].files) > 0)
          /\ response.body.summary.totalPlatforms = Len(request.targets)

C1_Witness ==
    /\ Succeeded
    /\ Len(request.targets) = 2
    /\ request.targets[1] \notin RecognizedTargets
    /\ request.targets[2] \in RecognizedTargets
    /\ response.body.results[1].files = <<>>

\* The top-level fields the schema requires of a project.
SchemaRequired == {"name", "version", "targets", "screens", "theme"}

\* Whether the project document holds the key at all.
Present(project, field) ==
    CASE field = "name" -> project.name # Undefined
      [] field = "version" -> project.version # Undefined
      [] field = "targets" -> project.hasTargets
      [] field = "screens" -> project.hasScreens
      [] field = "theme" -> project.theme # Undefined

\* C2: a POST /generate whose project lacks any of name, version, targets,
\* screens, theme is rejected with status 400, no generator is invoked and no
\* results are produced; generation is attempted only when all five are there.
C2_FiveFieldsRequired ==
    (Responded /\ \E field \in SchemaRequired : ~Present(request, field)) =>
      /\ response.status = 400
      /\ invoked = <<>>
      /\ "results" \notin DOMAIN response.body

Translators ==
    {"generateSwiftUIComponent", "generateComposeComponent", "generateReactComponent"}

Translated == call # NoCall /\ call.fn \in Translators

\* A capsule tree in which every node holds a props object, as the schema's
\* CapsuleInstance requires; children may be absent, empty, or hold null.
RECURSIVE HasPropsThroughout(_)
HasPropsThroughout(instance) ==
    \/ instance = Null
    \/ /\ instance.hasProps
       /\ \A i \in 1..Len(instance.children) : HasPropsThroughout(instance.children[i])

Children(o) == {heap[o][i] : i \in 1..Len(heap[o])}

RECURSIVE Closure(_, _)
Closure(S, n) ==
    IF n = 0 THEN S ELSE Closure(S \cup UNION {Children(o) : o \in S}, n - 1)

Descendants(o) == Closure(Children(o), MaxNodes)

\* Some object of the graph the function was called on is its own descendant.
CyclicFromRoot ==
    /\ walk.status # "idle"
    /\ \E o \in {1} \cup Descendants(1) : o \in Descendants(o)

\* C4: on a cyclic capsule tree, counting and translation stop themselves
\* after a fixed number of recursive steps with a reported failure: the
\* recursion is never ended by the engine's RangeError for a full call stack.
C4_CyclicTraversalGuarded == CyclicFromRoot => walk.status # "RangeError"

\* The positions of the nodes of a tree: the path of child indexes to each.
RECURSIVE Paths(_)
Paths(instance) ==
    IF instance = Null THEN {}
    ELSE {<<>>} \cup UNION {{<<i>> \o path : path \in Paths(instance.children[i])} :
                              i \in 1..Len(instance.children)}

Counted == call # NoCall /\ call.fn = "countCapsules"

\* C5: countCapsules(null) = 0, and for every tree countCapsules(node) is
\* 1 + the sum of countCapsules over node.children (1 when children is absent
\* or empty): the number of nodes of the tree.
C5_CountCorrect ==
    Counted =>
      /\ (call.arg = Null) => (call.result.value = 0)
      /\ (call.arg # Null) =>
           call.result.value =
             1 + SumSeq([i \in 1..Len(call.arg.children) |->
                           countCapsules(call.arg.children[i])])
      /\ call.result.value = Cardinality(Paths(call.arg))

C5_Witness ==
    /\ Counted
    /\ call.arg # Null
    /\ Len(call.arg.children) = MaxKids
    /\ \A i \in 1..MaxKids :
          call.arg.children[i] # Null /\ Len(call.arg.children[i].children) = MaxKids
    /\ call.result.value = 1 + MaxKids * (1 + MaxKids)

\* C6: for a project with k screens the iOS generator returns 2 + k files (app
\* entry, ContentView, one view per screen in screen order), the Android
\* generator 1 + k files (MainActivity, one screen file per screen), and the
\* web/desktop generator 2 + k files (App.tsx, one page per screen, the
\* Tailwind config).
C6_ManifestShape ==
    Succeeded =>
      \A i \in 1..Len(response.body.results) :
        LET platform == response.body.results[i].platform
            files == response.body.results[i].files
            screens == request.screens
            k == Len(screens)
        IN  /\ (platform = "ios") =>
                 /\ Len(files) = 2 + k
                 /\ EndsWith(files[1].path, "App.swift")
                 /\ files[2].path = "ContentView.swift"
                 /\ \A j \in 1..k :
                      files[2 + j].path = capitalize(screens[j].id) \o "View.swift"
            /\ (platform = "android") =>
                 /\ Len(files) = 1 + k
                 /\ files[1].path = "MainActivity.kt"
                 /\ \A j \in 1..k :
                      files[1 + j].path = capitalize(screens[j].id) \o "Screen.kt"
            /\ (platform \in {"web", "desktop"}) =>
                 /\ Len(files) = 2 + k
                 /\ files[1].path = "App.tsx"
                 /\ \A j \in 1..k : files[1 + j].path = "pages/" \o screens[j].id \o ".tsx"
                 /\ files[2 + k].path = "tailwind.config.js"

C6_Witness ==
    /\ Succeeded
    /\ Len(request.screens) = MaxScreens
    /\ Len(response.body.results) = 2
    /\ response.body.results[1].platform = "android"
    /\ Len(response.body.results[1].files) = 1 + MaxScreens
    /\ response.body.results[2].platform = "desktop"
    /\ Len(response.body.results[2].files) = 2 + MaxScreens


\* A progress or slider capsule whose props hold no value.
GaugeWithoutValue(instance) ==
    /\ instance # Null
    /\ instance.capsuleId \in {"progress", "slider"}
    /\ instance.hasProps
    /\ instance.props.value = Undefined

TranslatedTo(fn) == Translated /\ call.fn = fn /\ ~IsThrow(call.result)

\* C7 as stated: a progress or a slider capsule without a value prop renders
\* the 50% default on every backend: 0.5 in the iOS and Android fragments and
\* the width '50%' in the web fragment, for both kinds.
C7_DefaultOnEveryBackend ==
    (Translated /\ ~IsThrow(call.result) /\ GaugeWithoutValue(call.arg)) =>
      /\ TranslatedTo("generateSwiftUIComponent") => Contains(call.result.value, "0.5")
      /\ TranslatedTo("generateComposeComponent") => Contains(call.result.value, "0.5f")
      /\ TranslatedTo("generateReactComponent") => Contains(call.result.value, "'50%'")

\* C7 as amended: without a value prop, progress renders the 50% default on
\* every backend (0.5 on iOS and Android, the width '50%' on web) and slider
\* renders 0.5 on iOS and Android; the web backend has no slider case, and
\* renders a slider by its default case: the placeholder, or the generic
\* container when the slider has children.
C7_DefaultWhereMapped ==
    (Translated /\ ~IsThrow(call.result) /\ GaugeWithoutValue(call.arg)) =>
      LET fragment == call.result.value
          kind == call.arg.capsuleId
      IN  /\ (TranslatedTo("generateSwiftUIComponent") /\ kind = "progress") =>
                StartsWith(fragment, "ProgressView(value: 0.5)")
          /\ (TranslatedTo("generateSwiftUIComponent") /\ kind = "slider") =>
                StartsWith(fragment, "Slider(value: .constant(0.5),")
          /\ (TranslatedTo("generateComposeComponent") /\ kind = "progress") =>
                Contains(fragment, "progress = { 0.5f }")
          /\ (TranslatedTo("generateComposeComponent") /\ kind = "slider") =>
                Contains(fragment, "mutableFloatStateOf(0.5f)")
          /\ (TranslatedTo("generateReactComponent") /\ kind = "progress") =>
                Contains(fragment, "style={{ width: '50%' }}")
          /\ (TranslatedTo("generateReactComponent") /\ kind = "slider") =>
                IF Len(call.arg.children) > 0
                THEN StartsWith(fragment, "<div className=\"space-y-4\">")
                ELSE fragment = "<div>{/* TODO: slider */}</div>"

C7_Witness ==
    /\ TranslatedTo("generateReactComponent")
    /\ GaugeWithoutValue(call.arg)
    /\ call.arg.capsuleId = "slider"
    /\ Len(call.arg.children) = 0
    /\ ~Contains(call.result.value, "50%")

\* The kinds each translator's switch has a case for.
MappedBy(fn) ==
    CASE fn = "generateSwiftUIComponent" -> SwiftUIMapped
      [] fn = "generateComposeComponent" -> ComposeMapped
      [] fn = "generateReactComponent" -> ReactMapped

Translate(fn, instance) ==
    CASE fn = "generateSwiftUIComponent" -> generateSwiftUIComponent(instance)
      [] fn = "generateComposeComponent" -> generateComposeComponent(instance)
      [] fn = "generateReactComponent" -> generateReactComponent(instance)

ContainerOpening(fn) ==
    CASE fn = "generateSwiftUIComponent" -> "VStack(spacing: 16) {"
      [] fn = "generateComposeComponent" -> "Column {"
      [] fn = "generateReactComponent" -> "<div className=\"space-y-4\">"

ContainerClosing(fn) ==
    CASE fn = "generateSwiftUIComponent" -> "}"
      [] fn = "generateComposeComponent" -> "}"
      [] fn = "generateReactComponent" -> "</div>"

\* Whether the fragments occur in s one after the other, from position from on.
RECURSIVE InOrder(_, _, _)
InOrder(s, fragments, from) ==
    \/ Len(fragments) = 0
    \/ LET after == IndexAfter(s, Head(fragments), from)
       IN  after # 0 /\ InOrder(s, Tail(fragments), after)

FallsBack ==
    /\ Translated
    /\ ~IsThrow(call.result)
    /\ call.arg # Null
    /\ call.arg.capsuleId \notin MappedBy(call.fn)

\* C8: on every backend a node whose capsuleId has no case of its own is
\* translated by the fallback policy: with at least one child, a generic
\* vertical container holding the fragment of every child in child order;
\* with no children (absent or empty), a placeholder embedding the capsuleId.
C8_FallbackPolicy ==
    FallsBack =>
      LET fragment == call.result.value
          children == call.arg.children
      IN  IF Len(children) > 0
          THEN /\ StartsWith(fragment, ContainerOpening(call.fn))
               /\ EndsWith(fragment, ContainerClosing(call.fn))
               /\ InOrder(fragment,
                          [i \in 1..Len(children) |-> Translate(call.fn, children[i]).value],
                          Len(ContainerOpening(call.fn)) + 1)
          ELSE /\ Contains(fragment, "TODO: " \o call.arg.capsuleId)
               /\ ~StartsWith(fragment, ContainerOpening(call.fn))

C8_Witness ==
    /\ FallsBack
    /\ call.fn = "generateComposeComponent"
    /\ call.arg.capsuleId = "avatar"
    /\ Len(call.arg.children) = 2
    /\ call.arg.children[1] # Null
    /\ call.arg.children[2] # Null
    /\ call.arg.children[1] # call.arg.children[2]

\* C9: in every successful response summary.totalFiles is the sum of the
\* results' files.length, summary.totalPlatforms the number of results,
\* summary.totalScreens the number of screens, and summary.totalCapsules and
\* every result's metadata.capsuleCount the number of capsule nodes of all
\* screens (a screen without root adding 0).
C9_SummaryConsistent ==
    Succeeded =>
      LET results == response.body.results
          summary == response.body.summary
          screens == request.screens
          capsules == SumSeq([i \in 1..Len(screens) |-> Cardinality(Paths(screens[i].root))])
      IN  /\ summary.totalFiles = SumSeq([i \in 1..Len(results) |-> Len(results[i].files)])
          /\ summary.totalPlatforms = Len(results)
          /\ summary.totalScreens = Len(screens)
          /\ summary.totalCapsules = capsules
          /\ \A i \in 1..Len(results) :
                /\ results[i].metadata.capsuleCount = capsules
                /\ results[i].metadata.screenCount = Len(screens)

C9_Witness ==
    /\ Succeeded
    /\ Len(request.screens) = 2
    /\ request.screens[2].root # Null
    /\ Len(request.screens[2].root.children) = 2
    /\ response.body.summary.totalPlatforms = 2
    /\ response.body.summary.totalCapsules = 4
    /\ response.body.summary.totalFiles = 8

NoWhitespaceIn(s) == \A i \in 1..Len(s) : ~IsWhitespace(CharAt(s, i))

\* s without its whitespace characters, built from its last character back.
RECURSIVE WithoutWhitespace(_)
WithoutWhitespace(s) ==
    IF Len(s) = 0 THEN ""
    ELSE WithoutWhitespace(SubSeq(s, 1, Len(s) - 1))
         \o (IF IsWhitespace(CharAt(s, Len(s))) THEN "" ELSE CharAt(s, Len(s)))

\* The results of the iOS generator in the response.
IosResults ==
    {i \in 1..Len(response.body.results) : response.body.results[i].platform = "ios"}

EntryFile(i) == response.body.results[i].files[1]

\* The entry file's name without its "App.swift" ending.
Identifier(path) == SubSeq(path, 1, Len(path) - Len("App.swift"))

\* C10 as stated: the iOS entry file is <Identifier>App.swift, where Identifier
\* is the project name without whitespace and with its first letter
\* capitalized, also for a name that starts with a lowercase letter.
C10_EntryFileCapitalized ==
    (Succeeded /\ (IsLower(CharAt(request.name.string, 1))
                   \/ IsUpper(CharAt(request.name.string, 1)))) =>
      \A i \in IosResults :
        /\ EndsWith(EntryFile(i).path, "App.swift")
        /\ NoWhitespaceIn(Identifier(EntryFile(i).path))
        /\ IsUpper(CharAt(Identifier(EntryFile(i).path), 1))

\* C10 as amended: the iOS entry file is <Identifier>App.swift and declares
\* struct <Identifier>App, where Identifier is the project name with all
\* whitespace removed and every other character, the first letter included,
\* left as it is: 'Todo App' gives 'TodoAppApp.swift' and 'todo app' gives
\* 'todoappApp.swift'.
C10_EntryFileStripsWhitespaceOnly ==
    Succeeded =>
      \A i \in IosResults :
        LET name == request.name.string
            path == EntryFile(i).path
        IN  /\ EndsWith(path, "App.swift")
            /\ NoWhitespaceIn(Identifier(path))
            /\ Identifier(path) = WithoutWhitespace(name)
            /\ Contains(EntryFile(i).content, "struct " \o Identifier(path) \o "App: App {")
            /\ (name = "Todo App") => (path = "TodoAppApp.swift")
            /\ (name = "todo app") => (path = "todoappApp.swift")

C10_Witness ==
    /\ Succeeded
    /\ request.name = Str("todo app")
    /\ IosResults # {}
    /\ \A i \in IosResults : EntryFile(i).path = "todoappApp.swift"


\* A response without its times of generation.
Timeless(r) ==
    IF r.status = 200
    THEN [r EXCEPT !.body.results =
             [i \in 1..Len(@) |-> [@[i] EXCEPT !.metadata.generatedAt = 0]]]
    ELSE r

\* The file lists of a successful response: path, language and content of
\* every file of every result, in order.
FilesOf(r) == [i \in 1..Len(r.body.results) |-> r.body.results[i].files]

Repeated == earlier # NoExchange /\ Responded /\ request = earlier.project

\* The handler's step: it has the request and produces the response.
Handled == request # NoRequest /\ response = NoResponse /\ response' # NoResponse

\* C11: generation is deterministic and free of shared state: a call on the
\* same project and targets as an earlier call, right after it or with other
\* calls in between, produces the same response except for
\* metadata.generatedAt, with the same file paths, languages and contents in
\* the same order; and the call leaves its input project as it was.
C11_Deterministic ==
    /\ [](Repeated =>
            /\ Timeless(response) = Timeless(earlier.response)
            /\ response.status = 200 => FilesOf(response) = FilesOf(earlier.response))
    /\ [][Handled => request' = request]_vars

C11_Witness ==
    /\ Repeated
    /\ Succeeded
    /\ earlier.interleaved
    /\ Len(response.body.results) = 2
    /\ Len(FilesOf(response)[1]) = 4
    /\ response.body.results[1].metadata.generatedAt
          # earlier.response.body.results[1].metadata.generatedAt


\* The root container file of the iOS result i.
ContentViewFile(i) == response.body.results[i].files[2]

\* The name of the view of screen k in the iOS result i, read from the path
\* of the screen's file, <name>.swift.
ViewName(i, k) ==
    LET path == response.body.results[i].files[2 + k].path
    IN  SubSeq(path, 1, Len(path) - Len(".swift"))

\* The tab entry of screen k: its view with a tab item labelled by its name.
TabEntry(i, k) ==
    ViewName(i, k) \o "()\n                .tabItem {\n                    Label(\""
    \o request.screens[k].name \o "\""

TabsRequested ==
    /\ request.navigation # Undefined
    /\ request.navigation.type = Str("tabs")
    /\ Len(request.screens) > 1

\* C12: ContentView.swift uses the tab layout, with one tab entry per screen
\* in screen order, exactly when navigation.type is 'tabs' and the project has
\* more than one screen; in every other case it uses the single-stack layout
\* showing the first screen's view, or HomeView when there are no screens.
C12_TabsExactlyWhenRequested ==
    Succeeded =>
      \A i \in IosResults :
        LET content == ContentViewFile(i).content
            screens == request.screens
        IN  /\ ContentViewFile(i).path = "ContentView.swift"
            /\ IF TabsRequested
               THEN /\ Contains(content, "        TabView {\n")
                    /\ ~Contains(content, "NavigationStack")
                    /\ Cardinality(Occurrences(content, ".tabItem {", 1)) = Len(screens)
                    /\ InOrder(content, [k \in 1..Len(screens) |-> TabEntry(i, k)], 1)
               ELSE /\ ~Contains(content, "TabView")
                    /\ ~Contains(content, ".tabItem")
                    /\ Contains(content,
                                "        NavigationStack {\n            "
                                \o (IF Len(screens) = 0 THEN "HomeView" ELSE ViewName(i, 1))
                                \o "()\n        }")

C12_Witness ==
    /\ Succeeded
    /\ IosResults # {}
    /\ TabsRequested
    /\ request.screens[1].id # request.screens[2].id
    /\ \A i \in IosResults : Contains(ContentViewFile(i).content, "SettingsView()")


\* A progress or slider capsule whose props hold a number as value.
GaugeWithValue(instance) ==
    /\ instance # Null
    /\ instance.capsuleId \in {"progress", "slider"}
    /\ instance.hasProps
    /\ IsNumber(instance.props.value)

\* The percentage a gauge holds as value.
Percentage(instance) == instance.props.value.number \div 100

\* The decimal text of v/100, for v in 0..100.
FractionText(v) ==
    IF v = 0 THEN "0"
    ELSE IF v = 100 THEN "1"
    ELSE IF v % 10 = 0 THEN "0." \o Digit(v \div 10)
    ELSE "0." \o Digit(v \div 10) \o Digit(v % 10)

\* C13: for a progress or slider capsule whose props.value is an integer v in
\* 0..100, 0 and 100 included, the iOS and Android fragments embed the
\* fraction v/100 and the web progress fragment embeds the literal 'v%'; the
\* default 50 is applied only when the value prop is absent.
C13_ValueRendered ==
    (Translated /\ ~IsThrow(call.result) /\ GaugeWithValue(call.arg)) =>
      LET fragment == call.result.value
          kind == call.arg.capsuleId
          v == Percentage(call.arg)
      IN  /\ (TranslatedTo("generateSwiftUIComponent") /\ kind = "progress") =>
                Contains(fragment, "ProgressView(value: " \o FractionText(v) \o ")")
          /\ (TranslatedTo("generateSwiftUIComponent") /\ kind = "slider") =>
                Contains(fragment, "Slider(value: .constant(" \o FractionText(v) \o ")")
          /\ (TranslatedTo("generateComposeComponent") /\ kind = "progress") =>
                Contains(fragment, "progress = { " \o FractionText(v) \o "f }")
          /\ (TranslatedTo("generateComposeComponent") /\ kind = "slider") =>
                Contains(fragment, "mutableFloatStateOf(" \o FractionText(v) \o "f)")
          /\ (TranslatedTo("generateReactComponent") /\ kind = "progress") =>
                Contains(fragment, "width: '" \o IntToString(v) \o "%'")


\* The node of a tree at a position.
RECURSIVE NodeAt(_, _)
NodeAt(instance, path) ==
    IF Len(path) = 0 THEN instance
    ELSE NodeAt(instance.children[Head(path)], Tail(path))

\* C14: every capsule node counted by countCapsules contributes a fragment to
\* the emitted screen file: on every backend the fragment of each descendant
\* of the translated node, children under a mapped kind included, is contained
\* in the node's fragment.
C14_CountedNodesRendered ==
    (Translated /\ ~IsThrow(call.result) /\ call.arg # Null) =>
      \A path \in Paths(call.arg) :
        Contains(call.result.value, Translate(call.fn, NodeAt(call.arg, path)).value)

===========================================================================
